---- MODULE Spec2Model ----
(***************************************************************************)
(* Model of 6-3.LlamaIndex_Streamlit_Chat.py: a Streamlit page whose       *)
(* script main() is run from top to bottom on every user interaction.      *)
(* What survives between two runs is st.session_state, the widgets' values *)
(* (the API key, the uploaded files) and the working directory's files.    *)
(* Each run gets the uploader's files as fresh objects, so file.read()     *)
(* returns the whole content in every run.  The calls to the index service *)
(* and to the language model either return or raise.                       *)
(***************************************************************************)
EXTENDS Integers, Sequences, FiniteSets, TLC

\* Bounds of the model.
MaxFiles == 2     \* files in one upload batch given to the loader alone
MaxBatch == 1     \* files in one upload batch of the whole page
MaxBuilds == 3    \* index builds in one behaviour
MaxTurns == 2     \* questions accepted in one behaviour

Range(s) == {s[i] : i \in 1..Len(s)}

----------------------------------------------------------------------------
\* Uploaded files: name, declared MIME type, bytes.

UploadedFile(name, type, content) ==
    [name |-> name, type |-> type, content |-> content]

\* The files a user can put in the uploader: valid UTF-8 text with a
\* two-byte character ("Hé"), a zero-byte text file, invalid UTF-8, a
\* readable PDF, two corrupt PDFs, a readable PDF with a corrupt one's name,
\* and a file of another declared type.
TextFile == UploadedFile("a.txt", "text/plain", <<72, 195, 169>>)
EmptyFile == UploadedFile("e.txt", "text/plain", <<>>)
BadTextFile == UploadedFile("u.txt", "text/plain", <<255>>)
PdfFile == UploadedFile("c.pdf", "application/pdf", <<37, 72>>)
BadPdfFile == UploadedFile("d.pdf", "application/pdf", <<0>>)
FixedPdfFile == UploadedFile("d.pdf", "application/pdf", <<37, 68>>)
TruncatedPdfFile == UploadedFile("x.pdf", "application/pdf", <<>>)
ImageFile == UploadedFile("p.png", "image/png", <<137>>)

FileUniverse ==
    {TextFile, EmptyFile, BadTextFile, PdfFile, BadPdfFile, FixedPdfFile,
     TruncatedPdfFile, ImageFile}

\* The files used where the whole page is explored.
SessionFiles == {TextFile, PdfFile, BadTextFile}

RECURSIVE SeqsUpTo(_, _)
SeqsUpTo(S, n) ==
    IF n = 0 THEN {<<>>}
    ELSE LET shorter == SeqsUpTo(S, n - 1)
         IN  shorter \cup {Append(q, x) : q \in shorter, x \in S}

Batches == SeqsUpTo(FileUniverse, MaxFiles)

SessionBatches == SeqsUpTo(SessionFiles, MaxBatch)

Questions == {"q1"}
Answers == {"ans"}

----------------------------------------------------------------------------
\* content.decode('utf-8') for one- and two-byte sequences.

RECURSIVE utf8_valid(_)
utf8_valid(b) ==
    IF b = <<>> THEN TRUE
    ELSE IF b[1] < 128 THEN utf8_valid(Tail(b))
    ELSE IF b[1] \in 194..223 /\ Len(b) >= 2 /\ b[2] \in 128..191
         THEN utf8_valid(Tail(Tail(b)))
    ELSE FALSE

RECURSIVE decode(_)
decode(b) ==
    IF b = <<>> THEN <<>>
    ELSE IF b[1] < 128 THEN <<b[1]>> \o decode(Tail(b))
    ELSE <<(b[1] - 192) * 64 + (b[2] - 128)>> \o decode(Tail(Tail(b)))

Document(text, filename) == [text |-> text, filename |-> filename]

TempName(name) == "temp_" \o name

\* pdf_reader.load_data(path): raises unless the staged bytes start with
\* '%' (the %PDF magic); otherwise one Document for the one page, whose
\* metadata names the path that was read.
pdf_readable(content) == content # <<>> /\ content[1] = 37

pdf_load_data(path, content) == <<Document(decode(Tail(content)), path)>>

----------------------------------------------------------------------------
\* process_uploaded_files: the loop body for one file, on the accumulator
\* acc = [documents, errors, tempfiles].

ErrorEntry(kind, file) == [kind |-> kind, filename |-> file.name]

OnException(acc, file, tempfiles) ==
    [acc EXCEPT !.errors = Append(@, ErrorEntry("exception", file)),
                !.tempfiles = tempfiles]

ProcessPdf(acc, file) ==
    LET path == TempName(file.name)
        staged == acc.tempfiles \cup {path}
    IN  IF pdf_readable(file.content)
        THEN [acc EXCEPT !.documents = @ \o pdf_load_data(path, file.content),
                         !.tempfiles = staged \ {path}]
        ELSE OnException(acc, file, staged)

\* A decode that replaces invalid bytes instead of raising.
ProcessText_lenient(acc, file) ==
    [acc EXCEPT !.documents =
        Append(@, Document(IF utf8_valid(file.content)
                           THEN decode(file.content) ELSE <<65533>>,
                           file.name))]

ProcessText(acc, file) ==
    IF utf8_valid(file.content)
    THEN [acc EXCEPT !.documents =
              Append(@, Document(decode(file.content), file.name))]
    ELSE OnException(acc, file, acc.tempfiles)

ProcessFile(acc, file) ==
    IF file.type = "text/plain" THEN ProcessText(acc, file)
    ELSE IF file.type = "application/pdf" THEN ProcessPdf(acc, file)
    ELSE [acc EXCEPT !.errors = Append(@, ErrorEntry("unsupported", file))]

RECURSIVE LoadFrom(_, _, _)
LoadFrom(acc, files, i) ==
    IF i > Len(files) THEN acc
    ELSE LoadFrom(ProcessFile(acc, files[i]), files, i + 1)

process_uploaded_files(files, tempfiles) ==
    LoadFrom([documents |-> <<>>, errors |-> <<>>, tempfiles |-> tempfiles],
             files, 1)

----------------------------------------------------------------------------
\* State kept between script runs.

VARIABLES
    openai_api_key,   \* whether the sidebar's key field is filled in
    uploaded_files,   \* the file uploader's value: a sequence of files
    session_state,    \* st.session_state: the keys set, messages, chat_engine
    tempfiles,        \* names of the temp_<filename> files that exist
    builds,           \* number of indexes built so far (names each engine)
    rendered,         \* widgets the last script run put on the page
    run,              \* what the last script run did
    hist              \* over the whole behaviour: questions accepted, calls
                      \* of chat_engine.chat, answers since the last reset,
                      \* the batch the engine was built from, and whether
                      \* an engine of another batch was replaced

vars == <<openai_api_key, uploaded_files, session_state, tempfiles, builds,
          rendered, run, hist>>

NoEngine == [id |-> 0, docs |-> <<>>, history |-> <<>>]

Message(role, content) == [role |-> role, content |-> content]

NoPrompt == "none"

\* The record of a script run that has not done anything yet.
NewRun ==
    [outcome |-> "running", loaded |-> FALSE, documents |-> <<>>,
     errors |-> <<>>, attempted |-> FALSE, built |-> FALSE, turn |-> "none",
     seen |-> <<>>, sources |-> {}, after_reset |-> FALSE, reset_from |-> 0,
     reset_builds |-> 0]

----------------------------------------------------------------------------
\* initialize_chat_engine(index): a new engine over the index, with an empty
\* conversation memory.
initialize_chat_engine(index, id) ==
    [id |-> id, docs |-> index, history |-> <<>>]

\* VectorStoreIndex.from_documents(documents): an index over exactly the
\* documents given.
from_documents(documents) == documents

\* A build that merges into the index the session already holds.
AttachEngine_merge(ss, documents, id) ==
    [ss EXCEPT !.keys = @ \cup {"chat_engine"},
               !.chat_engine =
                   initialize_chat_engine(
                       from_documents(ss.chat_engine.docs \o documents), id)]

\* Lines 99-100 when the build succeeds: the new engine replaces whatever
\* st.session_state.chat_engine held.
AttachEngine(ss, documents, id) ==
    [ss EXCEPT !.keys = @ \cup {"chat_engine"},
               !.chat_engine =
                   initialize_chat_engine(from_documents(documents), id)]

\* An upload stage that stores the engine before the index is built, and so
\* leaves a half-made engine behind when the build fails.
UploadStage_early(c, files, build_ok) ==
    IF files = <<>> THEN c
    ELSE
      LET loaded == process_uploaded_files(files, c.tempfiles)
          c1 == [c EXCEPT !.tempfiles = loaded.tempfiles,
                          !.run.loaded = TRUE,
                          !.run.documents = loaded.documents,
                          !.run.errors = loaded.errors]
      IN  IF loaded.documents # <<>>
          THEN IF build_ok
               THEN [c1 EXCEPT
                       !.session_state =
                           AttachEngine(@, loaded.documents, c.builds + 1),
                       !.builds = @ + 1,
                       !.run.attempted = TRUE,
                       !.run.built = TRUE,
                       !.hist.replaced =
                           \/ @
                           \/ /\ "chat_engine" \in c.session_state.keys
                              /\ c.hist.built_from # files,
                       !.hist.built_from = files]
               ELSE [c1 EXCEPT !.session_state =
                                   AttachEngine(@, <<>>, c.builds),
                               !.run.attempted = TRUE,
                               !.run.outcome = "index_error"]
          ELSE [c1 EXCEPT !.run.outcome = "no_documents"]

\* Lines 89-104. c is the run's context; a context whose run.outcome is no
\* longer "running" has ended (a return or an uncaught exception).
UploadStage(c, files, build_ok) ==
    IF files = <<>> THEN c
    ELSE
      LET loaded == process_uploaded_files(files, c.tempfiles)
          c1 == [c EXCEPT !.tempfiles = loaded.tempfiles,
                          !.run.loaded = TRUE,
                          !.run.documents = loaded.documents,
                          !.run.errors = loaded.errors]
      IN  IF loaded.documents # <<>>
          THEN IF build_ok
               THEN [c1 EXCEPT
                       !.session_state =
                           AttachEngine(@, loaded.documents, c.builds + 1),
                       !.builds = @ + 1,
                       !.run.attempted = TRUE,
                       !.run.built = TRUE,
                       !.hist.replaced =
                           \/ @
                           \/ /\ "chat_engine" \in c.session_state.keys
                              /\ c.hist.built_from # files,
                       !.hist.built_from = files]
               ELSE [c1 EXCEPT !.run.attempted = TRUE,
                               !.run.outcome = "index_error"]
          ELSE [c1 EXCEPT !.run.outcome = "no_documents"]

\* Lines 107-108.
InitMessages(ss) ==
    IF "messages" \in ss.keys THEN ss
    ELSE [ss EXCEPT !.keys = @ \cup {"messages"}, !.messages = <<>>]

\* A chat input that is offered without looking at the session.
chat_input_always(ss) == TRUE

\* Line 116: the chat input is offered only when an engine is stored.
chat_input_enabled(ss) == "chat_engine" \in ss.keys

\* Line 119.
AppendUser(ss, prompt) ==
    [ss EXCEPT !.messages = Append(@, Message("user", prompt))]

\* Line 126: the chunks the engine retrieves for a question are some of the
\* documents its index was built from (pick: which ones, by position).
retrieve(engine, pick) ==
    {engine.docs[i] : i \in pick \cap DOMAIN engine.docs}

\* Line 126 on success: the engine answers and remembers the exchange.
\* Lines 128-130: the answer is appended to the transcript.
AppendAssistant(ss, prompt, answer) ==
    [ss EXCEPT !.messages = Append(@, Message("assistant", answer)),
               !.chat_engine.history =
                   @ \o <<Message("user", prompt), Message("assistant", answer)>>]

\* Lines 118-130: a question was sent.
UserTurn(c, in) ==
    LET engine == c.session_state.chat_engine
        c1 == [c EXCEPT !.session_state = AppendUser(@, in.prompt),
                        !.hist.accepted = @ + 1]
    IN  IF "chat_engine" \in c.session_state.keys
        THEN LET c2 == [c1 EXCEPT !.hist.calls = @ + 1,
                                  !.run.seen = engine.history,
                                  !.run.sources = retrieve(engine, in.pick)]
             IN  IF in.chat_ok
                 THEN [c2 EXCEPT
                         !.session_state =
                             AppendAssistant(@, in.prompt, in.answer),
                         !.hist.ok = @ + 1,
                         !.run.turn = "ok"]
                 ELSE [c2 EXCEPT !.run.turn = "failed",
                                 !.run.outcome = "chat_error"]
        ELSE [c1 EXCEPT !.run.turn = "failed", !.run.outcome = "chat_error"]

\* Lines 107-137.
ChatStage(c, in) ==
    IF c.run.outcome # "running" THEN c
    ELSE
      LET c1 == [c EXCEPT !.session_state = InitMessages(@)]
      IN  IF chat_input_enabled(c1.session_state)
          THEN LET shown == [c1 EXCEPT !.rendered = @ \cup {"chat_input"}]
               IN  IF in.prompt = NoPrompt THEN shown
                   ELSE UserTurn(shown, in)
          ELSE c1

\* Lines 140-142.
ResetStage(c, clicked) ==
    IF c.run.outcome # "running" THEN c
    ELSE LET shown == [c EXCEPT !.rendered = @ \cup {"reset_button"}]
         IN  IF clicked
             THEN [shown EXCEPT !.session_state.messages = <<>>,
                                !.hist.ok = 0,
                                !.run.outcome = "rerun"]
             ELSE [shown EXCEPT !.run.outcome = "done"]

\* One run of main() on the context c with the widget values of this run.
main(c, key, files, in) ==
    LET c0 == [c EXCEPT !.run = NewRun, !.rendered = {"api_key"}]
    IN  IF ~key THEN [c0 EXCEPT !.run.outcome = "no_key"]
        ELSE ResetStage(
               ChatStage(
                 UploadStage([c0 EXCEPT !.rendered = @ \cup {"file_uploader"}],
                             files, in.build_ok),
                 in),
               in.clicked)

----------------------------------------------------------------------------
\* The page after its first load: no key entered yet, so main() returned at
\* line 78.

EmptySession == [keys |-> {}, messages |-> <<>>, chat_engine |-> NoEngine]

Init ==
    /\ openai_api_key = FALSE
    /\ uploaded_files = <<>>
    /\ session_state = EmptySession
    /\ tempfiles = {}
    /\ builds = 0
    /\ rendered = {"api_key"}
    /\ run = [NewRun EXCEPT !.outcome = "no_key"]
    /\ hist = [accepted |-> 0, calls |-> 0, ok |-> 0, built_from |-> <<>>,
               replaced |-> FALSE]

Ctx ==
    [session_state |-> session_state, tempfiles |-> tempfiles,
     builds |-> builds, rendered |-> rendered, run |-> run, hist |-> hist]

\* What a run takes from outside the script: the widget values that caused
\* it and the outcomes of the calls to the index and language-model services.
Quiet(build_ok) ==
    [prompt |-> NoPrompt, clicked |-> FALSE, build_ok |-> build_ok,
     chat_ok |-> TRUE, answer |-> "ans", pick |-> {}]

Asking(prompt) ==
    [prompt : {prompt}, clicked : {FALSE}, build_ok : BOOLEAN,
     chat_ok : BOOLEAN, answer : Answers, pick : SUBSET (1..MaxBatch)]

WithinBounds(c) == c.builds <= MaxBuilds /\ c.hist.accepted <= MaxTurns

Commit(c) ==
    /\ WithinBounds(c)
    /\ session_state' = c.session_state
    /\ tempfiles' = c.tempfiles
    /\ builds' = c.builds
    /\ rendered' = c.rendered
    /\ run' = c.run
    /\ hist' = c.hist

\* st.rerun() was called: nothing else happens before the script runs again.
RerunPending == run.outcome = "rerun"

\* The user fills in or clears the API key field.
SetApiKey ==
    /\ ~RerunPending
    /\ \E build_ok \in BOOLEAN :
        /\ openai_api_key' = ~openai_api_key
        /\ UNCHANGED uploaded_files
        /\ Commit(main(Ctx, ~openai_api_key, uploaded_files, Quiet(build_ok)))

\* The user adds files to or removes files from the uploader.
ChangeFiles ==
    /\ ~RerunPending
    /\ "file_uploader" \in rendered
    /\ \E batch \in SessionBatches \ {uploaded_files}, build_ok \in BOOLEAN :
        /\ uploaded_files' = batch
        /\ UNCHANGED openai_api_key
        /\ Commit(main(Ctx, openai_api_key, batch, Quiet(build_ok)))

\* The user sends a question from the chat input.
SubmitPrompt ==
    /\ ~RerunPending
    /\ "chat_input" \in rendered
    /\ \E q \in Questions : \E in \in Asking(q) :
        /\ UNCHANGED <<openai_api_key, uploaded_files>>
        /\ Commit(main(Ctx, openai_api_key, uploaded_files, in))

\* The user presses the reset button: the run this causes ends in st.rerun().
\* The run record keeps which engine and how many builds there were before.
Clicked(c, before) ==
    [c EXCEPT !.run.reset_from = before.session_state.chat_engine.id,
              !.run.reset_builds = before.builds]

ClickReset ==
    /\ ~RerunPending
    /\ "reset_button" \in rendered
    /\ \E build_ok \in BOOLEAN :
        /\ UNCHANGED <<openai_api_key, uploaded_files>>
        /\ Commit(Clicked(main(Ctx, openai_api_key, uploaded_files,
                               [Quiet(build_ok) EXCEPT !.clicked = TRUE]),
                          Ctx))

\* The script run that st.rerun() asked for.
AfterReset(c, before) ==
    [c EXCEPT !.run.after_reset = TRUE,
              !.run.reset_from = before.run.reset_from,
              !.run.reset_builds = before.run.reset_builds]

Rerun ==
    /\ RerunPending
    /\ \E build_ok \in BOOLEAN :
        /\ UNCHANGED <<openai_api_key, uploaded_files>>
        /\ Commit(AfterReset(main(Ctx, openai_api_key, uploaded_files,
                                  Quiet(build_ok)),
                             Ctx))

Next == SetApiKey \/ ChangeFiles \/ SubmitPrompt \/ ClickReset \/ Rerun

Spec == Init /\ [][Next]_vars

----------------------------------------------------------------------------
\* process_uploaded_files on its own, over every batch of FileUniverse and
\* every set of temporary files earlier calls can have left.

Upload ==
    \E batch \in Batches :
        LET loaded == process_uploaded_files(batch, tempfiles)
        IN  /\ uploaded_files' = batch
            /\ tempfiles' = loaded.tempfiles
            /\ run' = [NewRun EXCEPT !.outcome = "done",
                                     !.loaded = TRUE,
                                     !.documents = loaded.documents,
                                     !.errors = loaded.errors]
            /\ UNCHANGED <<openai_api_key, session_state, builds, rendered,
                           hist>>

LoaderSpec == Init /\ [][Upload]_vars

----------------------------------------------------------------------------
\* Properties of the page (specification Spec).

Messages == session_state.messages

HasEngine == "chat_engine" \in session_state.keys

\* C1: a turn whose chat_engine.chat call fails leaves the transcript as it
\* was before the turn (the question is not left without its answer).
C1_FailedTurnKeepsTranscript ==
    [][run'.turn = "failed" =>
           session_state'.messages = session_state.messages]_vars

\* C2: at each call of chat_engine.chat the dialogue history held by the
\* engine equals the transcript of the prior turns; stated for a turn that
\* follows an answered turn, whose question and answer it must see.
C2_EngineSeesTranscript ==
    [][run.turn = "ok" /\ run'.turn # "none" =>
           run'.seen = session_state.messages]_vars

\* C3: after the reset button and the rerun it triggers, the transcript is
\* empty and an engine attached before the click is still the one held, with
\* no index built in between.
C3_ResetKeepsIndex ==
    run.after_reset =>
        /\ Len(Messages) = 0
        /\ run.reset_from # 0 =>
               /\ session_state.chat_engine.id = run.reset_from
               /\ builds = run.reset_builds

\* C4: while no chat engine is stored in the session, no question has been
\* accepted, no call to an engine has been made and the transcript is empty.
C4_UninitializedRejectsTurns ==
    ~HasEngine =>
        /\ hist.accepted = 0
        /\ hist.calls = 0
        /\ run.turn = "none"
        /\ "chat_input" \notin rendered
        /\ Messages = <<>>

\* The page ran to its end in a session without an engine: the transcript
\* was created, the chat section was reached and no chat input was offered.
C4_Witness ==
    /\ ~HasEngine
    /\ openai_api_key
    /\ "messages" \in session_state.keys
    /\ run.outcome = "done"
    /\ "reset_button" \in rendered
    /\ "chat_input" \notin rendered

\* C5: a successful turn appends the question and then the answer, so after
\* n successful turns since the last reset the transcript has 2n entries
\* that alternate user, assistant.
C5_TranscriptAlternates ==
    /\ Len(Messages) = 2 * hist.ok
    /\ \A i \in 1..Len(Messages) :
           Messages[i].role = IF i % 2 = 1 THEN "user" ELSE "assistant"

\* C6: the engine held by the session is built from the documents of the
\* last successfully processed batch alone, and the chunks retrieved for a
\* turn are among those documents.
LastBatchDocuments == process_uploaded_files(hist.built_from, {}).documents

C6_IndexReplaced ==
    HasEngine =>
        /\ session_state.chat_engine.docs = LastBatchDocuments
        /\ run.turn # "none" => run.sources \subseteq Range(LastBatchDocuments)

\* A question was answered from retrieved chunks after the engine of an
\* earlier, different batch had been replaced.
C6_Witness ==
    /\ hist.replaced
    /\ run.turn = "ok"
    /\ run.sources # {}

\* C10: a run in which the batch yields no document or the index build
\* fails leaves st.session_state as it was, and no build is attempted on an
\* empty document list.
C10_FailedBuildKeepsSession ==
    [][run'.outcome \in {"no_documents", "index_error"} =>
           /\ session_state' = session_state
           /\ builds' = builds
           /\ run'.outcome = "no_documents" => ~run'.attempted]_vars

\* The index build of a later batch failed in a session that holds an
\* engine and a transcript.
C10_Witness ==
    /\ run.outcome = "index_error"
    /\ HasEngine
    /\ Messages # <<>>
    /\ hist.built_from # uploaded_files

----------------------------------------------------------------------------
\* Properties of process_uploaded_files (specification LoaderSpec).

IsPdf(file) == file.type = "application/pdf"

\* A file the loader can turn into Documents.
Loadable(file) ==
    \/ file.type = "text/plain" /\ utf8_valid(file.content)
    \/ IsPdf(file) /\ pdf_readable(file.content)

NotLoadable(file) == ~Loadable(file)

\* C7: after process_uploaded_files returns, no temp_<filename> exists for
\* any PDF of the batch.
C7_TempFilesDeleted ==
    run.loaded =>
        \A i \in 1..Len(uploaded_files) :
            IsPdf(uploaded_files[i]) =>
                TempName(uploaded_files[i].name) \notin tempfiles

\* C8: the loader reports one error for every failing file, in upload
\* order, and returns one Document for every other file, in upload order.
C8_PerFileFailuresIsolated ==
    run.loaded =>
        LET good == SelectSeq(uploaded_files, Loadable)
            bad == SelectSeq(uploaded_files, NotLoadable)
        IN  /\ Len(run.documents) = Len(good)
            /\ \A i \in 1..Len(good) :
                   run.documents[i].filename \in
                       {good[i].name, TempName(good[i].name)}
            /\ Len(run.errors) = Len(bad)
            /\ \A i \in 1..Len(bad) : run.errors[i].filename = bad[i].name

\* A batch whose first file fails and whose second file is loaded.
C8_Witness ==
    /\ run.loaded
    /\ Len(uploaded_files) = 2
    /\ NotLoadable(uploaded_files[1])
    /\ Loadable(uploaded_files[2])
    /\ Len(run.documents) = 1
    /\ Len(run.errors) = 1

\* C9: every Document the loader returns has non-empty text.
C9_DocumentsNonEmpty ==
    \A i \in 1..Len(run.documents) : run.documents[i].text # <<>>

====
